---- MODULE Spec2Model ----
(***************************************************************************)
(* The real-time session synchronisation engine of the collaborative       *)
(* whiteboard server: the socket.io connection handlers of the server      *)
(* entry file (src/unnamed/part_001) over the SQLite tables of             *)
(* DatabaseManager (src/unnamed/part_002).                                 *)
(*                                                                         *)
(* Every async handler is a task that advances one await at a time.  A     *)
(* storage call is one step (the statement runs in the database, or        *)
(* fails), and the code after the await is a later step, so that other     *)
(* handlers interleave at every await exactly as on the Node event loop.   *)
(* `emits` holds what the last step sent to clients (acknowledgements,     *)
(* broadcasts) and wrote to console.error.                                 *)
(***************************************************************************)
EXTENDS Integers, Sequences, FiniteSets, TLC

\* ------------------------------------------------------------------ bounds
MaxInflight == 2   \* handlers that may be suspended at an await at one time
MaxTs == 3         \* element timestamps are 1..MaxTs
MaxRooms == 2      \* rooms that are created

Conns == {"c1", "c2"}        \* socket ids
RoomIds == {"r1", "r2"}      \* ids createRoom can generate, in this order
ElemIds == {"e1", "e2"}      \* element ids clients use
None == "none"               \* an unset socket.data field / no row
Absent == "undefined"        \* a field the client did not send
Null == "NULL"               \* SQL NULL, read back as JS null
Passwords == {"p1", "p2"}

MutKinds == {"drawing-start", "drawing-update", "drawing-end", "text-added"}

\* ------------------------------------------------------------------- state
VARIABLES
  phase,                \* "init" | "serving" | "failed" (initialize() rejected) | "exited"
  rooms,                \* table rooms: id -> row
  room_users,           \* table room_users: set of <<roomId, userId>>
  whiteboard_elements,  \* table whiteboard_elements: element id -> row
  socket,               \* per socket id: "none" | "open" | "closed"
  socketData,           \* socket.data.roomId (userId is set with it): room id or None
  socketRooms,          \* the socket.io rooms each socket is in
  tasks,                \* the suspended handler invocations
  emits,                \* what the last step emitted
  session,              \* history: the session state the protocol assigns a connection
  committed             \* history: per room, the first version of each element id
                        \* committed since the room's last clear, in commit order

vars == <<phase, rooms, room_users, whiteboard_elements, socket, socketData,
          socketRooms, tasks, emits, session, committed>>

\* ------------------------------------------------------------ value shapes
NoElement == [id |-> None, timestamp |-> 0]
Elements == [id : ElemIds, timestamp : 1..MaxTs]

NoRoom == [exists |-> FALSE, isPrivate |-> FALSE, password |-> Null, permissions |-> "edit"]
NoRow == [roomId |-> None, elementData |-> NoElement, timestamp |-> 0]

NoTask == [conn |-> None, kind |-> None, pc |-> None, roomId |-> None,
           password |-> Absent, element |-> NoElement, elements |-> <<>>,
           users |-> {}, sess |-> None, written |-> FALSE, snapOk |-> FALSE,
           removed |-> {}, changed |-> FALSE, acked |-> FALSE, payloadUser |-> None]

NoMsg == [kind |-> None, cause |-> None, from |-> None, to |-> {}, roomId |-> None,
          element |-> NoElement, elements |-> <<>>, users |-> {}, userId |-> None,
          password |-> Absent, ok |-> FALSE, error |-> None, sess |-> None, persisted |-> FALSE,
          snapOk |-> FALSE, dropped |-> FALSE, room |-> NoRoom]

Disconnected == [state |-> "Disconnected", roomId |-> None]
Joining == [state |-> "Joining", roomId |-> None]
Joined(r) == [state |-> "Joined", roomId |-> r]

\* ------------------------------------------------------- socket.io fan-out
\* The open sockets in socket.io room r.
InRoom(r) == {d \in Conns : socket[d] = "open" /\ r \in socketRooms[d]}

\* io.to(roomId): every socket in the room.
IoTo(r) == InRoom(r)

SocketTo_IncludingSender(c, r) == InRoom(r)

\* socket.to(roomId): every socket in the room except the sender.
SocketTo(c, r) == InRoom(r) \ {c}

\* AuthManager.createOrGetUser(socket.id, userName): the user of a socket id.
createOrGetUser(c) == c

\* ---------------------------------------------------------- DatabaseManager
RECURSIVE SetToSeqs(_)
SetToSeqs(S) ==
  IF S = {} THEN {<<>>}
  ELSE UNION {{<<x>> \o s : s \in SetToSeqs(S \ {x})} : x \in S}

\* SELECT ... FROM users JOIN room_users WHERE roomId = ?
getRoomUsers(ru, r) == {p[2] : p \in {q \in ru : q[1] = r}}

\* INSERT OR REPLACE INTO room_users
addUserToRoom(ru, r, u) == ru \cup {<<r, u>>}

removeUserFromRoom_WholeRoom(ru, r, u) == {q \in ru : q[1] # r}

\* DELETE FROM room_users WHERE roomId = ? AND userId = ?
removeUserFromRoom(ru, r, u) == ru \ {<<r, u>>}

\* INSERT OR REPLACE INTO whiteboard_elements: id is the table's primary key.
saveElement(els, r, e) ==
  [els EXCEPT ![e.id] = [roomId |-> r, elementData |-> e, timestamp |-> e.timestamp]]

RoomRowIds(els, r) == {i \in ElemIds : els[i].roomId = r}

\* SELECT elementData ... WHERE roomId = ? ORDER BY timestamp: every order of the
\* room's rows that is sorted by the timestamp column (rows with equal timestamps
\* come in an order SQLite does not fix), each row parsed back to its element.
getRoomElements(els, r) ==
  {[k \in 1..Len(s) |-> els[s[k]].elementData] :
     s \in {q \in SetToSeqs(RoomRowIds(els, r)) :
              \A a, b \in 1..Len(q) : a < b => els[q[a]].timestamp <= els[q[b]].timestamp}}

clearRoomElements_Nothing(els, r) == els

clearRoomElements_OneRow(els, r) ==
  [i \in ElemIds |-> IF els[i].roomId = r /\ i = "e1" THEN NoRow ELSE els[i]]

\* DELETE FROM whiteboard_elements WHERE roomId = ?
clearRoomElements(els, r) ==
  [i \in ElemIds |-> IF els[i].roomId = r THEN NoRow ELSE els[i]]

getRoom_Missing(r) == NoRoom

\* SELECT * FROM rooms WHERE id = ?: the row, or null
getRoom(r) == rooms[r]

\* --------------------------------------------- RoomManager, WhiteboardManager
\* The managers the handlers call hand each call on to the DatabaseManager.
roomManager_getRoom(r) == getRoom(r)
roomManager_addUserToRoom(ru, r, u) == addUserToRoom(ru, r, u)
roomManager_removeUserFromRoom(ru, r, u) == removeUserFromRoom(ru, r, u)
roomManager_getRoomUsers(ru, r) == getRoomUsers(ru, r)
addElement(els, r, e) == saveElement(els, r, e)
updateElement(els, r, e) == saveElement(els, r, e)
whiteboardManager_getRoomElements(els, r) == getRoomElements(els, r)
clearRoom(els, r) == clearRoomElements(els, r)

\* ------------------------------------------------------------ room creation
\* The request bodies of POST /api/rooms that are tried.
CreateRequests ==
  { [isPrivate |-> FALSE, password |-> "p1", permissions |-> Absent],
    [isPrivate |-> TRUE, password |-> "p1", permissions |-> "view"],
    [isPrivate |-> TRUE, password |-> Absent, permissions |-> Absent] }

\* A value bound to a column and read back: undefined is stored as NULL.
Stored(v) == IF v = Absent THEN Null ELSE v

RoomRow_KeepPassword(req) ==
  [exists |-> TRUE, isPrivate |-> req.isPrivate, password |-> Stored(req.password),
   permissions |-> IF req.permissions = Absent THEN "edit" ELSE req.permissions]

\* The row app.post('/api/rooms') and createRoom insert for a request body.
RoomRow(req) ==
  [exists |-> TRUE,
   isPrivate |-> req.isPrivate,
   password |-> Stored(IF req.isPrivate THEN req.password ELSE Absent),
   permissions |-> IF req.permissions = Absent THEN "edit" ELSE req.permissions]

FreshRoomId == IF ~rooms["r1"].exists THEN "r1" ELSE "r2"

\* history `committed` after a commit of e to room r / after a clear of r
Committed(h, r, e) ==
  [h EXCEPT ![r] = IF \E k \in 1..Len(@) : @[k].id = e.id THEN @ ELSE Append(@, e)]
Cleared(h, r) == [h EXCEPT ![r] = <<>>]
\* the element ids committed to r since its last clear
SinceClear(r) == {committed[r][k].id : k \in 1..Len(committed[r])}
\* the first commit of id i to r since r's last clear: its place and its timestamp
FirstIndex(r, i) == CHOOSE k \in 1..Len(committed[r]) : committed[r][k].id = i
OriginalTs(r, i) == committed[r][FirstIndex(r, i)].timestamp

\* -------------------------------------------------------------------- Init
Init ==
  /\ phase = "init"
  /\ rooms = [r \in RoomIds |-> NoRoom]
  /\ room_users = {}
  /\ whiteboard_elements = [i \in ElemIds |-> NoRow]
  /\ socket = [c \in Conns |-> "none"]
  /\ socketData = [c \in Conns |-> None]
  /\ socketRooms = [c \in Conns |-> {}]
  /\ tasks = {}
  /\ emits = {}
  /\ session = [c \in Conns |-> Disconnected]
  /\ committed = [r \in RoomIds |-> <<>>]

Db == <<rooms, room_users, whiteboard_elements, committed>>
Sockets == <<socket, socketData, socketRooms, session>>

CanStart == phase = "serving" /\ Cardinality(tasks) < MaxInflight

Replace(t, u) == (tasks \ {t}) \cup {u}

\* ----------------------------------------------------------------- startup
\* await dbManager.initialize(): the handlers are registered and the server
\* listens only when it resolves.
Initialize ==
  /\ phase = "init"
  /\ \E ok \in BOOLEAN : phase' = IF ok THEN "serving" ELSE "failed"
  /\ emits' = {}
  /\ UNCHANGED <<Db, Sockets, tasks>>

\* socket ids are handed out in order
NextSocketId == IF socket["c1"] = "none" THEN "c1" ELSE "c2"

Connect_BeforeInitialize(c) ==
  /\ socket[c] = "none"
  /\ c = NextSocketId
  /\ socket' = [socket EXCEPT ![c] = "open"]
  /\ emits' = {}
  /\ UNCHANGED <<phase, Db, socketData, socketRooms, session, tasks>>

\* io.on('connection')
Connect(c) ==
  /\ phase = "serving"
  /\ socket[c] = "none"
  /\ c = NextSocketId
  /\ socket' = [socket EXCEPT ![c] = "open"]
  /\ emits' = {}
  /\ UNCHANGED <<phase, Db, socketData, socketRooms, session, tasks>>

\* app.post('/api/rooms')
CreateRoom(req, nrooms, faults) ==
  /\ phase = "serving"
  /\ Cardinality({r \in RoomIds : rooms[r].exists}) < nrooms
  /\ ~rooms[FreshRoomId].exists
  /\ \/ /\ rooms' = [rooms EXCEPT ![FreshRoomId] = RoomRow(req)]
        /\ emits' = {[NoMsg EXCEPT !.kind = "http", !.cause = "create-room", !.ok = TRUE,
                                   !.roomId = FreshRoomId, !.password = req.password]}
     \/ /\ faults
        /\ rooms' = rooms
        /\ emits' = {[NoMsg EXCEPT !.kind = "http", !.cause = "create-room",
                                   !.error = "Failed to create room"]}
  /\ UNCHANGED <<phase, room_users, whiteboard_elements, committed, Sockets, tasks>>

\* ------------------------------------------------------------- join-room
RoomMissing_Never(room) == FALSE

\* if (!room)
RoomMissing(room) == ~room.exists

\* if (room.isPrivate && room.password !== password)
AccessDenied(room, pw) == room.isPrivate /\ room.password # pw

\* app.get('/api/rooms/:roomId'): {success: true, room}, 404 'Room not found', or
\* 500 when the lookup fails. `lookup` says when requests arrive: at any time
\* ("any") or only while no socket handler is suspended ("idle").
GetRoom(r, faults, lookup) ==
  /\ phase = "serving"
  /\ lookup = "any" \/ tasks = {}
  /\ \/ /\ ~RoomMissing(roomManager_getRoom(r))
        /\ emits' = {[NoMsg EXCEPT !.kind = "http", !.cause = "get-room", !.roomId = r,
                                   !.ok = TRUE, !.room = roomManager_getRoom(r)]}
     \/ /\ RoomMissing(roomManager_getRoom(r))
        /\ emits' = {[NoMsg EXCEPT !.kind = "http", !.cause = "get-room", !.roomId = r,
                                   !.error = "Room not found"]}
     \/ /\ faults
        /\ emits' = {[NoMsg EXCEPT !.kind = "http", !.cause = "get-room", !.roomId = r,
                                   !.error = "Failed to get room"]}
  /\ UNCHANGED <<phase, Db, Sockets, tasks>>

\* history: the snapshot s of room r holds one entry per element id committed to r
\* since r's last clear, ordered by the elements' original creation: by the
\* timestamps of their first versions, or by the order of their first commits.
ClaimedSnapshot(s, r) ==
  /\ {s[k].id : k \in 1..Len(s)} = SinceClear(r)
  /\ Len(s) = Cardinality(SinceClear(r))
  /\ \/ \A a, b \in 1..Len(s) : a < b => OriginalTs(r, s[a].id) <= OriginalTs(r, s[b].id)
     \/ \A a, b \in 1..Len(s) : a < b => FirstIndex(r, s[a].id) < FirstIndex(r, s[b].id)

\* callback(...): the acknowledgement function socket.io hands to the listener. It
\* transmits its first call only; a later call is dropped.
Ack(t, ok, error) ==
  [NoMsg EXCEPT !.kind = "ack", !.cause = "join-room", !.from = t.conn, !.to = {t.conn},
                !.dropped = t.acked,
                !.roomId = t.roomId, !.password = t.password, !.ok = ok, !.error = error,
                !.elements = IF ok THEN t.elements ELSE <<>>,
                !.userId = IF ok THEN createOrGetUser(t.conn) ELSE None,
                !.snapOk = ok /\ t.snapOk]

ConsoleError(t, text) ==
  [NoMsg EXCEPT !.kind = "console.error", !.cause = t.kind, !.from = t.conn,
                !.roomId = t.roomId, !.error = text]

\* history: a join answered with a failure ends the Joining state
AfterFailure(c) ==
  [session EXCEPT ![c] = IF session[c].state = "Joining" THEN Disconnected ELSE session[c]]

\* socket.on('join-room'): the event arrives and getRoom is called
JoinStart(c, r, pw) ==
  /\ CanStart
  /\ socket[c] = "open"
  /\ ~\E t \in tasks : t.conn = c /\ t.kind = "join-room"
  /\ tasks' = tasks \cup {[NoTask EXCEPT !.conn = c, !.kind = "join-room", !.pc = "getRoom",
                                         !.roomId = r, !.password = pw]}
  /\ session' = [session EXCEPT ![c] = IF session[c].state = "Disconnected"
                                        THEN Joining ELSE session[c]]
  /\ emits' = {}
  /\ UNCHANGED <<phase, Db, socket, socketData, socketRooms>>

\* catch (error): console.error and callback({success: false, ...})
JoinCatch(t) ==
  /\ emits' = {ConsoleError(t, "Error joining room"), Ack(t, FALSE, "Failed to join room")}
  /\ tasks' = tasks \ {t}
  /\ session' = AfterFailure(t.conn)

\* getRoom resolves, or fails: access validation, and createOrGetUser is called
JoinGetRoom(t, faults) ==
  /\ t \in tasks /\ t.kind = "join-room" /\ t.pc = "getRoom"
  /\ \/ /\ faults
        /\ JoinCatch(t)
        /\ UNCHANGED socketRooms
     \/ /\ RoomMissing(roomManager_getRoom(t.roomId))
        /\ emits' = {Ack(t, FALSE, "Room not found")}
        /\ tasks' = tasks \ {t}
        /\ session' = AfterFailure(t.conn)
        /\ UNCHANGED socketRooms
     \/ /\ ~RoomMissing(roomManager_getRoom(t.roomId))
        /\ AccessDenied(roomManager_getRoom(t.roomId), t.password)
        /\ emits' = {Ack(t, FALSE, "Invalid password")}
        /\ tasks' = tasks \ {t}
        /\ session' = AfterFailure(t.conn)
        /\ UNCHANGED socketRooms
     \/ /\ ~RoomMissing(roomManager_getRoom(t.roomId))
        /\ ~AccessDenied(roomManager_getRoom(t.roomId), t.password)
        /\ tasks' = Replace(t, [t EXCEPT !.pc = "createOrGetUser"])
        /\ emits' = {}
        /\ UNCHANGED <<session, socketRooms>>
  /\ UNCHANGED <<phase, Db, socket, socketData>>

JoinCreateUser_WithoutSocketJoin(t, faults) ==
  /\ t \in tasks /\ t.kind = "join-room" /\ t.pc = "createOrGetUser"
  /\ \/ /\ tasks' = Replace(t, [t EXCEPT !.pc = "addUserToRoom"])
        /\ emits' = {}
        /\ UNCHANGED <<session, socketRooms>>
     \/ /\ faults
        /\ JoinCatch(t)
        /\ UNCHANGED socketRooms
  /\ UNCHANGED <<phase, Db, socket, socketData>>

\* createOrGetUser resolves, or fails: socket.join(roomId), and addUserToRoom is called
JoinCreateUser(t, faults) ==
  /\ t \in tasks /\ t.kind = "join-room" /\ t.pc = "createOrGetUser"
  /\ \/ /\ socketRooms' = [socketRooms EXCEPT ![t.conn] = @ \cup {t.roomId}]
        /\ tasks' = Replace(t, [t EXCEPT !.pc = "addUserToRoom"])
        /\ emits' = {}
        /\ UNCHANGED session
     \/ /\ faults
        /\ JoinCatch(t)
        /\ UNCHANGED socketRooms
  /\ UNCHANGED <<phase, Db, socket, socketData>>

\* the INSERT of addUserToRoom runs, or fails
JoinAddUser(t, faults) ==
  /\ t \in tasks /\ t.kind = "join-room" /\ t.pc = "addUserToRoom"
  /\ \/ /\ room_users' = roomManager_addUserToRoom(room_users, t.roomId, createOrGetUser(t.conn))
        /\ tasks' = Replace(t, [t EXCEPT !.pc = "addedUser", !.password = Absent,
                                         !.changed = room_users' # room_users])
        /\ emits' = {}
        /\ UNCHANGED session
     \/ /\ faults
        /\ JoinCatch(t)
        /\ UNCHANGED room_users
  /\ UNCHANGED <<phase, rooms, whiteboard_elements, committed, socket, socketData, socketRooms>>

\* after await addUserToRoom: socket.data is set and getRoomElements is called
JoinSetData(t) ==
  /\ t \in tasks /\ t.kind = "join-room" /\ t.pc = "addedUser"
  /\ socketData' = [socketData EXCEPT ![t.conn] = t.roomId]
  /\ tasks' = Replace(t, [t EXCEPT !.pc = "getRoomElements", !.changed = FALSE])
  /\ emits' = {}
  /\ UNCHANGED <<phase, Db, socket, socketRooms, session>>

\* the SELECT of getRoomElements runs, or fails
JoinGetElements(t, faults) ==
  /\ t \in tasks /\ t.kind = "join-room" /\ t.pc = "getRoomElements"
  /\ \/ /\ \E s \in whiteboardManager_getRoomElements(whiteboard_elements, t.roomId) :
             tasks' = Replace(t, [t EXCEPT !.pc = "gotElements", !.elements = s,
                                           !.snapOk = ClaimedSnapshot(s, t.roomId)])
        /\ emits' = {}
        /\ UNCHANGED session
     \/ faults /\ JoinCatch(t)
  /\ UNCHANGED <<phase, Db, socket, socketData, socketRooms>>

\* after await getRoomElements: callback({success: true, ...}), user-joined to the
\* others, and getRoomUsers is called
JoinAck(t) ==
  /\ t \in tasks /\ t.kind = "join-room" /\ t.pc = "gotElements"
  /\ emits' = {Ack(t, TRUE, None),
               [NoMsg EXCEPT !.kind = "user-joined", !.cause = "join-room", !.from = t.conn,
                             !.to = SocketTo(t.conn, t.roomId), !.roomId = t.roomId,
                             !.userId = createOrGetUser(t.conn)]}
  /\ session' = [session EXCEPT ![t.conn] = IF socket[t.conn] = "open"
                                             THEN Joined(t.roomId) ELSE session[t.conn]]
  /\ tasks' = Replace(t, [t EXCEPT !.pc = "getRoomUsers", !.elements = <<>>,
                                   !.snapOk = FALSE, !.acked = TRUE])
  /\ UNCHANGED <<phase, Db, socket, socketData, socketRooms>>

\* the SELECT of getRoomUsers runs, or fails (the catch then calls the callback again)
JoinGetUsers(t, faults) ==
  /\ t \in tasks /\ t.kind = "join-room" /\ t.pc = "getRoomUsers"
  /\ \/ /\ tasks' = Replace(t, [t EXCEPT !.pc = "gotUsers",
                                         !.users = roomManager_getRoomUsers(room_users, t.roomId)])
        /\ emits' = {}
        /\ UNCHANGED session
     \/ faults /\ JoinCatch(t)
  /\ UNCHANGED <<phase, Db, socket, socketData, socketRooms>>

\* after await getRoomUsers: io.to(roomId).emit('room-users-updated', roomUsers)
JoinEmitUsers(t) ==
  /\ t \in tasks /\ t.kind = "join-room" /\ t.pc = "gotUsers"
  /\ emits' = {[NoMsg EXCEPT !.kind = "room-users-updated", !.cause = "join-room",
                             !.from = t.conn, !.to = IoTo(t.roomId), !.roomId = t.roomId,
                             !.users = t.users]}
  /\ tasks' = tasks \ {t}
  /\ UNCHANGED <<phase, Db, Sockets>>

\* ------------------------------------------------ leave-room and disconnect
LeaveTask(c, kind) ==
  [NoTask EXCEPT !.conn = c, !.kind = kind, !.pc = "removeUserFromRoom",
                 !.roomId = socketData[c], !.sess = session[c].state]

\* socket.on('leave-room'): handleUserLeave is called when socket.data is set
LeaveRoom(c) ==
  /\ CanStart
  /\ socket[c] = "open"
  /\ tasks' = IF socketData[c] # None THEN tasks \cup {LeaveTask(c, "leave-room")} ELSE tasks
  /\ session' = [session EXCEPT ![c] = IF session[c].state = "Joined"
                                        THEN Disconnected ELSE session[c]]
  /\ emits' = {}
  /\ UNCHANGED <<phase, Db, socket, socketData, socketRooms>>

Disconnect_CancelsPending(c) ==
  /\ CanStart
  /\ socket[c] = "open"
  /\ socket' = [socket EXCEPT ![c] = "closed"]
  /\ socketRooms' = [socketRooms EXCEPT ![c] = {}]
  /\ tasks' = {t \in tasks : t.conn # c}
                 \cup (IF socketData[c] # None THEN {LeaveTask(c, "disconnect")} ELSE {})
  /\ session' = [session EXCEPT ![c] = Disconnected]
  /\ emits' = {}
  /\ UNCHANGED <<phase, Db, socketData>>

\* the connection closes: socket.io takes the socket out of its rooms, then
\* socket.on('disconnect') calls handleUserLeave when socket.data is set
Disconnect(c) ==
  /\ CanStart
  /\ socket[c] = "open"
  /\ socket' = [socket EXCEPT ![c] = "closed"]
  /\ socketRooms' = [socketRooms EXCEPT ![c] = {}]
  /\ tasks' = IF socketData[c] # None THEN tasks \cup {LeaveTask(c, "disconnect")} ELSE tasks
  /\ session' = [session EXCEPT ![c] = Disconnected]
  /\ emits' = {}
  /\ UNCHANGED <<phase, Db, socketData>>

IsLeave(t) == t.kind \in {"leave-room", "disconnect"}

\* handleUserLeave: the DELETE of removeUserFromRoom runs, or fails (caught and logged)
LeaveRemoveUser(t, faults) ==
  /\ t \in tasks /\ IsLeave(t) /\ t.pc = "removeUserFromRoom"
  /\ \/ /\ room_users' = roomManager_removeUserFromRoom(room_users, t.roomId, createOrGetUser(t.conn))
        /\ tasks' = Replace(t, [t EXCEPT !.pc = "removedUser",
                                         !.changed = room_users' # room_users])
        /\ emits' = {}
     \/ /\ faults
        /\ room_users' = room_users
        /\ tasks' = tasks \ {t}
        /\ emits' = {ConsoleError(t, "Error handling user leave")}
  /\ UNCHANGED <<phase, rooms, whiteboard_elements, committed, Sockets>>

\* handleUserLeave after await removeUserFromRoom: socket.leave, user-left to the
\* others, and getRoomUsers is called
LeaveNotify(t) ==
  /\ t \in tasks /\ IsLeave(t) /\ t.pc = "removedUser"
  /\ socketRooms' = [socketRooms EXCEPT ![t.conn] = @ \ {t.roomId}]
  /\ emits' = {[NoMsg EXCEPT !.kind = "user-left", !.cause = t.kind, !.from = t.conn,
                             !.to = SocketTo(t.conn, t.roomId), !.roomId = t.roomId,
                             !.userId = createOrGetUser(t.conn), !.sess = t.sess]}
  /\ tasks' = Replace(t, [t EXCEPT !.pc = "getRoomUsers", !.changed = FALSE])
  /\ UNCHANGED <<phase, Db, socket, socketData, session>>

\* handleUserLeave: the SELECT of getRoomUsers runs, or fails (caught and logged)
LeaveGetUsers(t, faults) ==
  /\ t \in tasks /\ IsLeave(t) /\ t.pc = "getRoomUsers"
  /\ \/ /\ tasks' = Replace(t, [t EXCEPT !.pc = "gotUsers",
                                         !.users = roomManager_getRoomUsers(room_users, t.roomId)])
        /\ emits' = {}
     \/ /\ faults
        /\ tasks' = tasks \ {t}
        /\ emits' = {ConsoleError(t, "Error handling user leave")}
  /\ UNCHANGED <<phase, Db, Sockets>>

\* handleUserLeave after await getRoomUsers: room-users-updated to the others
LeaveEmitUsers(t) ==
  /\ t \in tasks /\ IsLeave(t) /\ t.pc = "gotUsers"
  /\ emits' = {[NoMsg EXCEPT !.kind = "room-users-updated", !.cause = t.kind,
                             !.from = t.conn, !.to = SocketTo(t.conn, t.roomId),
                             !.roomId = t.roomId, !.users = t.users,
                             !.userId = createOrGetUser(t.conn), !.sess = t.sess]}
  /\ tasks' = tasks \ {t}
  /\ UNCHANGED <<phase, Db, Sockets>>

\* ------------------------------------------- drawing and text events, clear
\* if (!roomId || !userId) return
NotInRoom(c) == socketData[c] = None

\* socket.on('drawing-start' | 'drawing-update' | 'drawing-end' | 'text-added'):
\* the event arrives with data = {element: e, userId: u} (u is None when the
\* payload names no user); past the guard, addElement / updateElement is called
Mutation(c, kind, e, u) ==
  /\ CanStart
  /\ socket[c] = "open"
  /\ tasks' = IF NotInRoom(c) THEN tasks
              ELSE tasks \cup {[NoTask EXCEPT !.conn = c, !.kind = kind, !.pc = "saveElement",
                                              !.roomId = socketData[c], !.element = e,
                                              !.payloadUser = u,
                                              !.sess = session[c].state]}
  /\ emits' = {}
  /\ UNCHANGED <<phase, Db, Sockets>>

\* The promise of an async handler without try/catch rejects and nothing handles
\* the rejection. Node reports it on stderr and then, depending on its
\* unhandled-rejections mode, either goes on (warn) or raises it as an uncaught
\* exception that ends the process (throw, the default since Node 15): every
\* connection, its socket.data and every suspended handler is gone.
UnhandledRejection(t) ==
  /\ emits' = {[ConsoleError(t, "unhandledRejection") EXCEPT !.sess = t.sess]}
  /\ \/ /\ tasks' = tasks \ {t}
        /\ UNCHANGED <<phase, Sockets>>
     \/ /\ phase' = "exited"
        /\ tasks' = {}
        /\ socket' = [c \in Conns |-> IF socket[c] = "open" THEN "closed" ELSE socket[c]]
        /\ socketData' = [c \in Conns |-> None]
        /\ socketRooms' = [c \in Conns |-> {}]
        /\ session' = [c \in Conns |-> Disconnected]

MutationSave_ViewRoomsReadOnly(t, faults) ==
  /\ t \in tasks /\ t.kind \in MutKinds /\ t.pc = "saveElement"
  /\ \/ /\ rooms[t.roomId].permissions # "view"
        /\ whiteboard_elements' = IF t.kind \in {"drawing-start", "text-added"}
                                  THEN addElement(whiteboard_elements, t.roomId, t.element)
                                  ELSE updateElement(whiteboard_elements, t.roomId, t.element)
        /\ committed' = Committed(committed, t.roomId, t.element)
        /\ tasks' = Replace(t, [t EXCEPT !.pc = "saved", !.written = TRUE])
        /\ emits' = {}
        /\ UNCHANGED <<phase, Sockets>>
     \/ /\ rooms[t.roomId].permissions = "view"
        /\ tasks' = tasks \ {t}
        /\ emits' = {}
        /\ UNCHANGED <<phase, Sockets, whiteboard_elements, committed>>
     \/ /\ faults
        /\ UnhandledRejection(t)
        /\ UNCHANGED <<whiteboard_elements, committed>>
  /\ UNCHANGED <<rooms, room_users>>

\* the INSERT OR REPLACE of saveElement runs, or fails (the handler has no catch)
MutationSave(t, faults) ==
  /\ t \in tasks /\ t.kind \in MutKinds /\ t.pc = "saveElement"
  /\ \/ /\ whiteboard_elements' = IF t.kind \in {"drawing-start", "text-added"}
                                  THEN addElement(whiteboard_elements, t.roomId, t.element)
                                  ELSE updateElement(whiteboard_elements, t.roomId, t.element)
        /\ committed' = Committed(committed, t.roomId, t.element)
        /\ tasks' = Replace(t, [t EXCEPT !.pc = "saved", !.written = TRUE])
        /\ emits' = {}
        /\ UNCHANGED <<phase, Sockets>>
     \/ /\ faults
        /\ UnhandledRejection(t)
        /\ UNCHANGED <<whiteboard_elements, committed>>
  /\ UNCHANGED <<rooms, room_users>>

MutationMsg(t) ==
  [NoMsg EXCEPT !.kind = t.kind, !.cause = t.kind, !.from = t.conn,
                !.to = SocketTo(t.conn, t.roomId), !.roomId = t.roomId,
                !.element = t.element, !.userId = createOrGetUser(t.conn),
                !.sess = t.sess, !.persisted = t.written]

\* The earlier variant of the server: socket.to(roomId).emit(kind, data) relays the
\* client's payload as it came.
RelayedMsg(t) ==
  [NoMsg EXCEPT !.kind = t.kind, !.cause = t.kind, !.from = t.conn,
                !.to = SocketTo(t.conn, t.roomId), !.roomId = t.roomId,
                !.element = t.element, !.userId = t.payloadUser,
                !.sess = t.sess, !.persisted = t.written]

MutationEmit_BeforeSave(t, variant) ==
  /\ t \in tasks /\ t.kind \in MutKinds /\ t.pc \in {"saveElement", "saved"}
  /\ emits' = {MutationMsg(t)}
  /\ tasks' = IF t.pc = "saved" THEN tasks \ {t} ELSE tasks
  /\ UNCHANGED <<phase, Db, Sockets>>

\* after the await: socket.to(roomId).emit(kind, {element, userId}), or in the
\* earlier variant emit(kind, data)
MutationEmit(t, variant) ==
  /\ t \in tasks /\ t.kind \in MutKinds /\ t.pc = "saved"
  /\ emits' = {IF variant = "earlier" THEN RelayedMsg(t) ELSE MutationMsg(t)}
  /\ tasks' = tasks \ {t}
  /\ UNCHANGED <<phase, Db, Sockets>>

\* socket.on('clear-canvas'): past the guard, clearRoom is called
ClearCanvas(c) ==
  /\ CanStart
  /\ socket[c] = "open"
  /\ tasks' = IF NotInRoom(c) THEN tasks
              ELSE tasks \cup {[NoTask EXCEPT !.conn = c, !.kind = "clear-canvas",
                                              !.pc = "clearRoomElements",
                                              !.roomId = socketData[c],
                                              !.sess = session[c].state]}
  /\ emits' = {}
  /\ UNCHANGED <<phase, Db, Sockets>>

\* the DELETE of clearRoomElements runs, or fails (the handler has no catch)
ClearRun(t, faults) ==
  /\ t \in tasks /\ t.kind = "clear-canvas" /\ t.pc = "clearRoomElements"
  /\ \/ /\ whiteboard_elements' = clearRoom(whiteboard_elements, t.roomId)
        /\ committed' = Cleared(committed, t.roomId)
        /\ tasks' = Replace(t, [t EXCEPT !.pc = "cleared", !.written = TRUE,
                                         !.removed = RoomRowIds(whiteboard_elements, t.roomId)])
        /\ emits' = {}
        /\ UNCHANGED <<phase, Sockets>>
     \/ /\ faults
        /\ UnhandledRejection(t)
        /\ UNCHANGED <<whiteboard_elements, committed>>
  /\ UNCHANGED <<rooms, room_users>>

\* after the await: socket.to(roomId).emit('canvas-cleared')
ClearEmit(t) ==
  /\ t \in tasks /\ t.kind = "clear-canvas" /\ t.pc = "cleared"
  /\ emits' = {[NoMsg EXCEPT !.kind = "canvas-cleared", !.cause = t.kind, !.from = t.conn,
                             !.to = SocketTo(t.conn, t.roomId), !.roomId = t.roomId,
                             !.sess = t.sess, !.persisted = t.written]}
  /\ tasks' = tasks \ {t}
  /\ UNCHANGED <<phase, Db, Sockets>>

CursorMove_Retained(c) ==
  /\ CanStart
  /\ socket[c] = "open"
  /\ ~NotInRoom(c)
  /\ emits' = {[NoMsg EXCEPT !.kind = "cursor-moved", !.cause = "cursor-move", !.from = c,
                             !.to = SocketTo(c, socketData[c]), !.roomId = socketData[c],
                             !.userId = createOrGetUser(c), !.sess = session[c].state]}
  /\ whiteboard_elements' =
       saveElement(whiteboard_elements, socketData[c], [id |-> "e1", timestamp |-> 1])
  /\ UNCHANGED <<phase, rooms, room_users, committed, Sockets, tasks>>

\* socket.on('cursor-move'): synchronous, nothing is stored
CursorMove(c) ==
  /\ CanStart
  /\ socket[c] = "open"
  /\ emits' = IF NotInRoom(c) THEN {}
              ELSE {[NoMsg EXCEPT !.kind = "cursor-moved", !.cause = "cursor-move",
                                  !.from = c, !.to = SocketTo(c, socketData[c]),
                                  !.roomId = socketData[c], !.userId = createOrGetUser(c),
                                  !.sess = session[c].state]}
  /\ UNCHANGED <<phase, Db, Sockets, tasks>>

\* --------------------------------------------------------------------- Next
\* The events a client may send.
Events == {"join-room", "leave-room", "disconnect", "drawing", "clear-canvas", "cursor-move"}
AnyEvent == [c \in Conns |-> Events]

\* One step of the server, with the clients' inputs drawn from the given sets: the
\* number of rooms created, whether storage calls may fail, the create-room
\* request bodies, when room lookups arrive, the join passwords, the events each
\* connection may send, the drawing event kinds and elements, the user ids a
\* drawing payload may name, and the variant of the server that runs.
NextOver(nrooms, faults, reqs, lookup, pws, may, kinds, elems, users, variant) ==
  \/ Initialize
  \/ \E c \in Conns : Connect(c)
  \/ \E req \in reqs : CreateRoom(req, nrooms, faults)
  \/ \E r \in RoomIds : GetRoom(r, faults, lookup)
  \/ \E c \in Conns, r \in RoomIds, pw \in pws :
       "join-room" \in may[c] /\ JoinStart(c, r, pw)
  \/ \E t \in tasks : JoinGetRoom(t, faults)
  \/ \E t \in tasks : JoinCreateUser(t, faults)
  \/ \E t \in tasks : JoinAddUser(t, faults)
  \/ \E t \in tasks : JoinSetData(t)
  \/ \E t \in tasks : JoinGetElements(t, faults)
  \/ \E t \in tasks : JoinAck(t)
  \/ \E t \in tasks : JoinGetUsers(t, faults)
  \/ \E t \in tasks : JoinEmitUsers(t)
  \/ \E c \in Conns : "leave-room" \in may[c] /\ LeaveRoom(c)
  \/ \E c \in Conns : "disconnect" \in may[c] /\ Disconnect(c)
  \/ \E t \in tasks : LeaveRemoveUser(t, faults)
  \/ \E t \in tasks : LeaveNotify(t)
  \/ \E t \in tasks : LeaveGetUsers(t, faults)
  \/ \E t \in tasks : LeaveEmitUsers(t)
  \/ \E c \in Conns, kind \in kinds, e \in elems, u \in users :
       "drawing" \in may[c] /\ Mutation(c, kind, e, u)
  \/ \E t \in tasks : MutationSave(t, faults)
  \/ \E t \in tasks : MutationEmit(t, variant)
  \/ \E c \in Conns : "clear-canvas" \in may[c] /\ ClearCanvas(c)
  \/ \E t \in tasks : ClearRun(t, faults)
  \/ \E t \in tasks : ClearEmit(t)
  \/ \E c \in Conns : "cursor-move" \in may[c] /\ CursorMove(c)

PublicRequest == [isPrivate |-> FALSE, password |-> "p1", permissions |-> Absent]
OneElement == [id |-> "e1", timestamp |-> 1]

\* Every input.
Next == NextOver(MaxRooms, TRUE, CreateRequests, "any", Passwords \cup {Absent}, AnyEvent,
                 MutKinds, Elements, Conns \cup {None}, "current")
Spec == Init /\ [][Next]_vars

\* Broadcast discipline: one public room, every event kind, one element, storage
\* that does not fail.
NextBroadcast == NextOver(1, FALSE, {PublicRequest}, "idle", {Absent}, AnyEvent, MutKinds,
           {OneElement}, {None}, "current")
SpecBroadcast == Init /\ [][NextBroadcast]_vars

\* Sessions and presence: a public room, storage that may fail, one drawing event.
NextPresence ==
  NextOver(1, TRUE, {PublicRequest}, "idle", {Absent}, AnyEvent, {"drawing-start"},
           {OneElement}, {None}, "current")
SpecPresence == Init /\ [][NextPresence]_vars

\* The canvas: one room of any kind (only a public one can be joined, no password
\* being supplied), room lookups at any time and storage that does not fail; c1
\* draws, clears and disconnects while c2 joins, leaves and moves its cursor.
CanvasElements ==
  { [id |-> "e1", timestamp |-> 1], [id |-> "e2", timestamp |-> 2],
    [id |-> "e1", timestamp |-> MaxTs] }
CanvasClients ==
  [c \in Conns |-> IF c = "c1" THEN {"join-room", "drawing", "clear-canvas", "disconnect"}
                   ELSE {"join-room", "leave-room", "cursor-move"}]
NextCanvas ==
  NextOver(1, FALSE, CreateRequests, "any", {Absent}, CanvasClients, {"drawing-update"},
           CanvasElements, {None}, "current")
SpecCanvas == Init /\ [][NextCanvas]_vars

\* Two rooms: public rooms and storage that does not fail; c1 joins rooms, draws
\* one element id, clears and moves its cursor, c2 joins, leaves and disconnects.
RoomsClients ==
  [c \in Conns |-> IF c = "c1" THEN {"join-room", "drawing", "clear-canvas", "cursor-move"}
                   ELSE {"join-room", "leave-room", "disconnect"}]
NextRooms ==
  NextOver(MaxRooms, FALSE, {PublicRequest}, "idle", {Absent}, RoomsClients,
           {"drawing-start"},
           {OneElement}, {None}, "current")
SpecRooms == Init /\ [][NextRooms]_vars

\* Access control: every kind of room and password, one drawing event, storage
\* that does not fail.
NextAccess ==
  NextOver(1, FALSE, CreateRequests, "idle", Passwords \cup {Absent}, AnyEvent,
           {"drawing-start"},
           {OneElement}, {None}, "current")
SpecAccess == Init /\ [][NextAccess]_vars

\* The earlier variant of the server, with drawing payloads that name no user or
\* name c2: one public room, one drawing event, storage that does not fail.
NextEarlier ==
  NextOver(1, FALSE, {PublicRequest}, "idle", {Absent}, AnyEvent, {"drawing-start"},
           {OneElement}, {None, "c2"}, "earlier")
SpecEarlier == Init /\ [][NextEarlier]_vars

\* A joiner that stays: one public room and storage that does not fail; c1 joins,
\* draws, clears, leaves and disconnects, while c2 joins, moves its cursor and
\* never leaves.
JoinerClients ==
  [c \in Conns |-> IF c = "c1"
                   THEN {"join-room", "drawing", "clear-canvas", "leave-room", "disconnect"}
                   ELSE {"join-room", "cursor-move"}]
NextJoiner ==
  NextOver(1, FALSE, {PublicRequest}, "idle", {Absent}, JoinerClients, {"drawing-update"},
           {OneElement}, {None}, "current")
SpecJoiner == Init /\ [][NextJoiner]_vars

\* ================================================================== claims
BroadcastKinds ==
  MutKinds \cup {"user-joined", "user-left", "room-users-updated", "canvas-cleared",
                 "cursor-moved"}
LeaveKinds == {"leave-room", "disconnect"}

\* C1: a drawing-start, drawing-update, drawing-end or text-added broadcast is
\* emitted only after the element's write to the element store has completed.
C1_WriteBeforeBroadcast ==
  \A m \in emits : m.kind \in MutKinds => m.persisted

\* C1 witness: a drawing event is broadcast to a peer after its write.
C1_Witness ==
  \E m \in emits : m.kind \in MutKinds /\ m.to # {} /\ m.persisted

\* C2, for the sessions that are Disconnected (never joined, or after leave-room):
\* a drawing, text, clear or cursor event received in that state changes no stored
\* element and is broadcast to nobody.
C2_DisconnectedEventsDropped ==
  /\ \A t \in tasks :
       (t.kind \in MutKinds \cup {"clear-canvas"} /\ t.written) => t.sess # "Disconnected"
  /\ \A m \in emits :
       (m.kind \in MutKinds \cup {"canvas-cleared", "cursor-moved"} /\ m.to # {})
         => m.sess # "Disconnected"

\* C3: the element sequence of a successful join acknowledgement holds exactly the
\* elements committed to the room since its last clear, one entry per id, ordered
\* by original creation time.
C3_JoinSnapshot ==
  \A m \in emits : (m.kind = "ack" /\ m.ok) => m.snapOk

\* C4: a drawing or text event of a connection Joined to room R is delivered to
\* exactly the other connections Joined to R.
C4_DeliveredToJoinedPeers ==
  \A m \in emits :
    (m.kind \in MutKinds /\ session[m.from] = Joined(m.roomId))
      => m.to = {d \in Conns \ {m.from} : session[d] = Joined(m.roomId)}

\* C5 as claimed: no broadcast is delivered to the connection whose event caused it.
C5_NoBroadcastToOriginator ==
  \A m \in emits : m.kind \in BroadcastKinds => m.from \notin m.to

\* C5 as amended: the only broadcast delivered to the connection that caused it is
\* the room-users-updated list that join-room sends to the whole room.
C5_OnlyJoinListReachesOriginator ==
  \A m \in emits :
    (m.kind \in BroadcastKinds /\ m.from \in m.to)
      => (m.kind = "room-users-updated" /\ m.cause = "join-room")

\* C5 witness: a broadcast other than join-room's list reaches a peer while its
\* originator is itself an open member of the socket.io room.
C5_Witness ==
  \E m \in emits :
    /\ m.kind \in BroadcastKinds
    /\ ~(m.kind = "room-users-updated" /\ m.cause = "join-room")
    /\ m.to # {}
    /\ m.from \in InRoom(m.roomId)
    /\ m.from \notin m.to

\* C6: a join of a private room passes the access validation if and only if the
\* supplied password equals the room's stored password (no password supplied
\* equals no password stored); a join of a public room always passes.
SamePassword(pw, stored) == Stored(pw) = stored
C6_JoinIffPasswordMatches ==
  /\ \A m \in emits :
       (m.kind = "ack" /\ m.error = "Invalid password")
         => (rooms[m.roomId].isPrivate /\ ~SamePassword(m.password, rooms[m.roomId].password))
  /\ \A t \in tasks :
       (t.kind = "join-room" /\ t.pc = "createOrGetUser")
         => (~rooms[t.roomId].isPrivate \/ SamePassword(t.password, rooms[t.roomId].password))

\* C7: when the room lookup of a join-room finds no room (in a server process that
\* goes on running), the request is answered
\* with 'Room not found' (with 'Failed to join room' only when the lookup itself
\* failed), to the requesting connection alone, and the tables, socket.data and
\* the socket.io rooms are unchanged.
C7_UnknownRoom ==
  [][\A t \in tasks :
       (t.kind = "join-room" /\ t.pc = "getRoom" /\ ~rooms[t.roomId].exists /\ t \notin tasks'
          /\ phase' = "serving")
         => /\ (ConsoleError(t, "Error joining room") \notin emits'
                  => emits' = {Ack(t, FALSE, "Room not found")})
            /\ \A m \in emits' : m.to \subseteq {t.conn} /\ ~m.ok
            /\ tasks' = tasks \ {t}
            /\ UNCHANGED <<rooms, room_users, whiteboard_elements, socketData, socketRooms>>]_vars

\* C7 witness: a join is answered 'Room not found' while another connection is Joined.
C7_Witness ==
  \E m \in emits :
    /\ m.kind = "ack" /\ m.error = "Room not found"
    /\ \E d \in Conns \ {m.from} : session[d].state = "Joined"

\* C8: after a join-room of a connection that is not Joined is answered with a
\* failure, the connection is no stored member of the room, is not subscribed to
\* it, has no socket.data, and nobody else received anything.
C8_FailedJoinLeavesNothing ==
  \A m \in emits :
    (m.kind = "ack" /\ ~m.ok /\ session[m.from].state # "Joined")
      => /\ <<m.roomId, createOrGetUser(m.from)>> \notin room_users
         /\ m.roomId \notin socketRooms[m.from]
         /\ socketData[m.from] = None
         /\ \A n \in emits : n.to \subseteq {m.from}

\* C9: a Joined member of a room receives a user-left only for a leave or disconnect
\* of a user who had not already left the room: no user-left is duplicated.
C9_NoDuplicateUserLeft ==
  \A m \in emits :
    (m.kind = "user-left" /\ \E d \in m.to : session[d] = Joined(m.roomId))
      => m.sess # "Disconnected"

\* C10: a snapshot of a room holds only elements committed to it since its last
\* completed clear: it is empty right after the clear, and an element whose
\* commit preceded the clear is back only once it is committed again.
C10_ClearedElementsStayGone ==
  \A r \in RoomIds :
    \A s \in whiteboardManager_getRoomElements(whiteboard_elements, r) :
      {s[k].id : k \in 1..Len(s)} \subseteq SinceClear(r)

\* C10 witness: a clear-canvas has just deleted the elements of a room that had
\* some, and the room's snapshot is empty.
C10_Witness ==
  \E t \in tasks :
    /\ t.kind = "clear-canvas" /\ t.pc = "cleared" /\ t.removed # {}
    /\ whiteboardManager_getRoomElements(whiteboard_elements, t.roomId) = {<<>>}

\* C11: a clear of room R removes every element of R in one step, and a snapshot
\* read of R returns all the elements R holds at the step of the read, so that a
\* read concurrent with a clear sees the whole set the clear found or nothing of it.
C11_ClearAndReadAreAtomic ==
  [][/\ \A t \in tasks :
          (t.kind = "clear-canvas" /\ t.pc = "clearRoomElements"
             /\ \E u \in tasks' \ tasks : u.conn = t.conn /\ u.pc = "cleared")
            => RoomRowIds(whiteboard_elements', t.roomId) = {}
      /\ \A u \in tasks' \ tasks :
          (u.kind = "join-room" /\ u.pc = "gotElements")
            => /\ {u.elements[k].id : k \in 1..Len(u.elements)}
                    = RoomRowIds(whiteboard_elements, u.roomId)
               /\ whiteboard_elements' = whiteboard_elements]_vars

\* C11 witness: a clear has just removed two elements while a join of the same
\* room is about to read its snapshot.
C11_Witness ==
  \E t \in tasks :
    /\ t.kind = "clear-canvas" /\ t.pc = "cleared" /\ Cardinality(t.removed) = 2
    /\ \E u \in tasks :
         u.kind = "join-room" /\ u.pc = "getRoomElements" /\ u.roomId = t.roomId

\* C12: when the handlers of two update events for the same element id of a room
\* run concurrently and both have written, the stored version of the id is the one
\* that carries the later timestamp.
C12_LaterTimestampWins ==
  \A t, u \in tasks :
    (/\ t.kind \in {"drawing-update", "drawing-end"} /\ t.pc = "saved"
     /\ u.kind \in {"drawing-update", "drawing-end"} /\ u.pc = "saved"
     /\ t.roomId = u.roomId /\ t.element.id = u.element.id
     /\ t.element.timestamp > u.element.timestamp
     /\ whiteboard_elements[t.element.id].roomId = t.roomId)
      => whiteboard_elements[t.element.id].elementData = t.element

\* C13: in every reachable state the users stored as members of a room are the
\* users whose open connections are subscribed to the room's broadcasts.
Subscribed(r) == {createOrGetUser(c) : c \in InRoom(r)}
C13_RegistryMatchesPresence ==
  \A r \in RoomIds : roomManager_getRoomUsers(room_users, r) = Subscribed(r)

\* C14: when no handler is running, the stored members of a room are exactly the
\* users whose connection is open and Joined to the room.
C14_MembersAreJoinedAtRest ==
  tasks = {}
    => \A r \in RoomIds :
         roomManager_getRoomUsers(room_users, r)
           = {createOrGetUser(c) : c \in {d \in Conns : session[d] = Joined(r)}}

\* C15: a step that relays a cursor-move changes nothing but what is emitted: the
\* tables, socket.data, the socket.io rooms and the suspended handlers (whose
\* snapshots no cursor position can thus enter) stay as they are, and the only
\* message is the cursor-moved broadcast.
C15_CursorMoveChangesNothing ==
  [][(\E m \in emits' : m.kind = "cursor-moved")
       => /\ UNCHANGED <<phase, rooms, room_users, whiteboard_elements, socket, socketData,
                         socketRooms, tasks>>
          /\ \A m \in emits' : m.kind = "cursor-moved" /\ m.element = NoElement]_vars

\* C15 witness: a cursor position is relayed to a peer while the room has a stored
\* element and a join of the room is in flight.
C15_Witness ==
  /\ \E m \in emits : m.kind = "cursor-moved" /\ m.to # {}
  /\ \E i \in ElemIds : whiteboard_elements[i].roomId # None
  /\ \E t \in tasks : t.kind = "join-room"

\* C16: the step in which the store write of a drawing or text event accepted
\* from a Joined connection fails leaves the element store unchanged, emits nothing to any client, and
\* leaves the server serving with every connection and session as it was.
C16_FailedWriteIsDropped ==
  [][\A t \in tasks :
       (t.kind \in MutKinds /\ t.pc = "saveElement" /\ t.sess = "Joined"
          /\ \E m \in emits' : m.kind = "console.error" /\ m.from = t.conn /\ m.cause = t.kind)
         => /\ whiteboard_elements' = whiteboard_elements
            /\ \A m \in emits' : m.to = {}
            /\ phase' = "serving"
            /\ UNCHANGED <<socket, socketData, session>>]_vars

\* C17: the membership operations are idempotent. Adding a user to a room makes
\* the user a member and changes no other membership, changes nothing when the
\* user is a member already, and adding again changes nothing; removing a user
\* changes nothing when the user is no member, and removing again changes nothing.
\* Neither raises an error for a member already present or already absent.
C17_MembershipIdempotent ==
  [][\A t \in tasks : \A u \in tasks' \ tasks :
       /\ (t.kind = "join-room" /\ t.pc = "addUserToRoom" /\ u = [t EXCEPT !.pc = "addedUser",
              !.password = Absent, !.changed = u.changed])
            => /\ room_users' = room_users \cup {<<t.roomId, createOrGetUser(t.conn)>>}
               /\ addUserToRoom(room_users', t.roomId, createOrGetUser(t.conn)) = room_users'
               /\ emits' = {}
       /\ (IsLeave(t) /\ t.pc = "removeUserFromRoom"
             /\ u = [t EXCEPT !.pc = "removedUser", !.changed = u.changed])
            => /\ room_users' = room_users \ {<<t.roomId, createOrGetUser(t.conn)>>}
               /\ removeUserFromRoom(room_users', t.roomId, createOrGetUser(t.conn))
                    = room_users'
               /\ emits' = {}]_vars

\* C17 witness: a join has added a user who was a member already while a leave has
\* removed a user who was no member, and neither changed the table.
C17_Witness ==
  /\ \E t \in tasks : t.kind = "join-room" /\ t.pc = "addedUser" /\ ~t.changed
  /\ \E t \in tasks : IsLeave(t) /\ t.pc = "removedUser" /\ ~t.changed
  /\ room_users # {}

\* C18: the step in which a drawing or text event is written, or a clear-canvas
\* is run, for room A leaves the snapshot and the stored members of every other
\* room as they were.
C18_OtherRoomsUntouched ==
  [][\A t \in tasks :
       (t.pc \in {"saveElement", "clearRoomElements"} /\ t \notin tasks'
          /\ whiteboard_elements' # whiteboard_elements)
         => \A b \in RoomIds \ {t.roomId} :
              /\ getRoomElements(whiteboard_elements', b) = getRoomElements(whiteboard_elements, b)
              /\ getRoomUsers(room_users', b) = getRoomUsers(room_users, b)]_vars

\* C19: every stored room that is not private stores no password.
C19_PasswordOnlyIfPrivate ==
  \A r \in RoomIds : (rooms[r].exists /\ ~rooms[r].isPrivate) => rooms[r].password = Null

\* C19 witness: a create request that carried a password has just created a public
\* room, which stores none.
C19_Witness ==
  \E m \in emits :
    /\ m.kind = "http" /\ m.cause = "create-room" /\ m.ok /\ m.password # Absent
    /\ ~rooms[m.roomId].isPrivate /\ rooms[m.roomId].password = Null

\* C20: a room row appears only by a create request and never changes afterwards;
\* a lookup over HTTP finds a room exactly when its row exists, and a join is
\* answered 'Room not found' only when it does not.
C20_RoomsPersistUnchanged ==
  [][/\ \A r \in RoomIds :
          /\ rooms[r].exists => rooms'[r] = rooms[r]
          /\ (~rooms[r].exists /\ rooms'[r].exists)
               => \E m \in emits' : /\ m.kind = "http" /\ m.cause = "create-room"
                                    /\ m.ok /\ m.roomId = r
      /\ \A m \in emits' :
          /\ (m.kind = "http" /\ m.cause = "get-room") => (m.ok <=> rooms[m.roomId].exists)
          /\ (m.kind = "ack" /\ m.error = "Room not found") => ~rooms[m.roomId].exists]_vars

\* C20 witness: a lookup finds a room that a connection had joined and that has no
\* members any more.
C20_Witness ==
  \E m \in emits :
    /\ m.kind = "http" /\ m.cause = "get-room" /\ m.ok
    /\ getRoomUsers(room_users, m.roomId) = {}
    /\ \E c \in Conns : socketData[c] = m.roomId

\* C21: until initialize() has resolved, and for ever once it has rejected, no
\* connection is accepted, no handler runs, nothing is emitted and no table is
\* written; after a rejection nothing happens at all.
C21_NothingBeforeInitialize ==
  /\ [](phase \in {"init", "failed"}
          => /\ \A c \in Conns : socket[c] = "none" /\ socketData[c] = None
             /\ tasks = {} /\ emits = {}
             /\ room_users = {}
             /\ \A r \in RoomIds : ~rooms[r].exists
             /\ \A i \in ElemIds : whiteboard_elements[i] = NoRow)
  /\ [][phase # "failed"]_vars

\* C21 witness: initialize() has rejected.
C21_Witness == phase = "failed"

\* C22: a disconnect cancels nothing. The step in which a connection closes leaves
\* the stored elements unchanged and keeps every write the connection has pending;
\* no step of the disconnect's leave handling changes the stored elements; and a
\* pending write of a closed connection commits its element to the room the event
\* was accepted for, going on to its broadcast.
C22_DisconnectCancelsNothing ==
  [][/\ \A c \in Conns :
          (socket[c] = "open" /\ socket'[c] = "closed" /\ phase' = "serving")
            => /\ whiteboard_elements' = whiteboard_elements
               /\ committed' = committed
               /\ \A t \in tasks : (t.conn = c /\ t.kind \in MutKinds) => t \in tasks'
     /\ \A t \in tasks :
          (t.kind = "disconnect" /\ t \notin tasks')
            => whiteboard_elements' = whiteboard_elements
     /\ \A t \in tasks :
          (/\ t.kind \in MutKinds /\ t.pc = "saveElement" /\ socket[t.conn] = "closed"
           /\ t \notin tasks' /\ phase' = "serving")
            => /\ whiteboard_elements'[t.element.id] =
                    [roomId |-> t.roomId, elementData |-> t.element,
                     timestamp |-> t.element.timestamp]
               /\ [t EXCEPT !.pc = "saved", !.written = TRUE] \in tasks'
               /\ \A i \in ElemIds \ {t.element.id} :
                    whiteboard_elements'[i] = whiteboard_elements[i]]_vars

\* C22 witness: the write of a connection that has disconnected since the event was
\* accepted is committed, and the leave handling of the disconnect has removed the
\* connection from the room.
C22_Witness ==
  \E t \in tasks :
    /\ t.kind \in MutKinds /\ t.pc = "saved" /\ socket[t.conn] = "closed"
    /\ whiteboard_elements[t.element.id].elementData = t.element
    /\ whiteboard_elements[t.element.id].roomId = t.roomId
    /\ <<t.roomId, createOrGetUser(t.conn)>> \notin room_users

\* C23: every drawing, text and cursor broadcast carries as userId the user id the
\* server assigned to the sending connection, whatever user id the payload names.
C23_ServerAssignedUserId ==
  \A m \in emits :
    (m.kind \in MutKinds \cup {"cursor-moved"} /\ m.to # {})
      => m.userId = createOrGetUser(m.from)

\* C24: once every handler has completed, a connection is a stored member of at
\* most one room and its socket is in at most one socket.io room.
C24_AtMostOneRoom ==
  tasks = {}
    => \A c \in Conns :
         /\ Cardinality({r \in RoomIds : <<r, createOrGetUser(c)>> \in room_users}) <= 1
         /\ Cardinality(socketRooms[c]) <= 1

\* C25: no committed mutation is lost to a joiner that stays. A mutation is
\* broadcast only after its write; when it is broadcast, every other connection
\* that has joined the room or is joining it, and does not leave, either receives
\* the broadcast or has its snapshot read still ahead while the element is stored
\* (unless a clear has removed it since); and a snapshot read returns every
\* element the room holds at the read.
Stays(b) == {"leave-room", "disconnect"} \cap JoinerClients[b] = {}
BeforeRead == {"getRoom", "createOrGetUser", "addUserToRoom", "addedUser", "getRoomElements"}
C25_SnapshotOrBroadcast ==
  [][/\ \A m \in emits' :
          m.kind \in MutKinds
            => /\ m.persisted
               /\ \A b \in Conns \ {m.from} :
                    (/\ Stays(b)
                     /\ \/ session[b] = Joined(m.roomId)
                        \/ \E u \in tasks : /\ u.kind = "join-room" /\ u.conn = b
                                            /\ u.roomId = m.roomId)
                      => \/ b \in m.to
                         \/ /\ \E u \in tasks : /\ u.kind = "join-room" /\ u.conn = b
                                                /\ u.roomId = m.roomId /\ u.pc \in BeforeRead
                            /\ m.element.id \in SinceClear(m.roomId)
                                 => m.element.id \in RoomRowIds(whiteboard_elements, m.roomId)
     /\ \A u \in tasks' \ tasks :
          (u.kind = "join-room" /\ u.pc = "gotElements")
            => \A i \in RoomRowIds(whiteboard_elements, u.roomId) :
                 \E k \in 1..Len(u.elements) :
                   u.elements[k] = whiteboard_elements[i].elementData]_vars

\* C25 witness: the joiner read its snapshot before the write and receives the
\* broadcast before its own acknowledgement.
C25_Witness ==
  \E m \in emits :
    /\ m.kind \in MutKinds /\ m.persisted
    /\ \E u \in tasks :
         /\ u.kind = "join-room" /\ u.pc = "gotElements" /\ u.roomId = m.roomId
         /\ u.conn # m.from /\ u.conn \in m.to /\ u.elements = <<>>

C27_PresenceConverges ==
  \A m \in emits :
    (m.kind = "room-users-updated" /\ tasks = {})
      => \A d \in m.to :
           session[d] = Joined(m.roomId)
             => m.users = roomManager_getRoomUsers(room_users, m.roomId)

\* C28: the permission mode of a room gates nothing. Whatever the mode of its
\* room, an accepted drawing or text event stores its element and is then
\* broadcast to the others in the room, and an accepted clear empties the room and
\* is then broadcast.
C28_PermissionsGateNothing ==
  [][\A t \in tasks :
       (t \notin tasks' /\ phase' = "serving")
         => /\ (t.kind \in MutKinds /\ t.pc = "saveElement")
                 => /\ whiteboard_elements'[t.element.id] =
                         [roomId |-> t.roomId, elementData |-> t.element,
                          timestamp |-> t.element.timestamp]
                    /\ [t EXCEPT !.pc = "saved", !.written = TRUE] \in tasks'
            /\ (t.kind \in MutKinds /\ t.pc = "saved")
                 => emits' = {MutationMsg(t)}
            /\ (t.kind = "clear-canvas" /\ t.pc = "clearRoomElements")
                 => /\ RoomRowIds(whiteboard_elements', t.roomId) = {}
                    /\ \E u \in tasks' : /\ u.conn = t.conn /\ u.kind = "clear-canvas"
                                         /\ u.pc = "cleared" /\ u.written
            /\ (t.kind = "clear-canvas" /\ t.pc = "cleared")
                 => \E m \in emits' : /\ m.kind = "canvas-cleared" /\ m.persisted
                                      /\ m.to = SocketTo(t.conn, t.roomId)]_vars

\* C28 witness: in a room whose mode is 'view', a drawing event of a Joined
\* connection is stored and broadcast to the other Joined connection.
C28_Witness ==
  \E m \in emits :
    /\ m.kind \in MutKinds /\ m.persisted /\ m.sess = "Joined"
    /\ rooms[m.roomId].permissions = "view"
    /\ whiteboard_elements[m.element.id].roomId = m.roomId
    /\ \E d \in m.to : session[d] = Joined(m.roomId)

\* C29: the stored password of a private room is sent to no client that has not
\* supplied it: the response to a room lookup by id carries no stored password,
\* and a join refused for its password is answered with the error alone.
C29_PasswordNotDisclosed ==
  \A m \in emits :
    /\ (m.kind = "http" /\ m.cause = "get-room") => m.room.password = Null
    /\ (m.kind = "ack" /\ m.error = "Invalid password")
         => m.room = NoRoom /\ m.elements = <<>> /\ m.userId = None

====
